---- MODULE Spec2Model ----
(***************************************************************************)
(* Navigation and key-binding state of rust_kanban (src/app/state.rs):     *)
(* UiMode / Focus navigation with the focus repair of UiMode::render, and  *)
(* the editable KeyBindings table with its key -> action resolution.       *)
(***************************************************************************)
EXTENDS Naturals, Integers, Sequences, FiniteSets

VARIABLES
    ui_mode,     \* app.state.ui_mode : UiMode
    focus,       \* app.state.focus : Focus
    popup_mode,  \* app.state.popup_mode : Option<PopupMode>, "None" or "Some"
    call,        \* the last navigation operation: its name, the focus it
                 \* started from, what it returned and what it drew
    kb,          \* the KeyBindings table: field name -> Vec<Key>
    kcall,       \* the last KeyBindings operation: its name and arguments,
                 \* and what it returned
    edits,       \* number of edit_keybinding calls made so far
    edited       \* per binding name: <<L>> for the key list L given by the
                 \* latest successful edit naming it, <<>> if there was none

navVars == <<ui_mode, focus, popup_mode, call>>
keyVars == <<kb, kcall, edits, edited>>
vars == <<ui_mode, focus, popup_mode, call, kb, kcall, edits, edited>>

(***************************************************************************)
(* Vec / slice helpers (0-based positions, as in the Rust code).           *)
(***************************************************************************)
\* The outcome of an out-of-range index access (a Rust panic).
Panic == "PANIC"

\* slice.contains(x)
contains(s, x) == \E i \in 1..Len(s) : s[i] = x

\* slice.iter().position(|y| y == x).unwrap(), 0-based
position(s, x) ==
    IF contains(s, x)
    THEN (CHOOSE i \in 1..Len(s) : s[i] = x /\ \A j \in 1..(i - 1) : s[j] # x) - 1
    ELSE Panic

\* s[i] with Rust's bounds check, 0-based
index_at(s, i) == IF i \in 0..(Len(s) - 1) THEN s[i + 1] ELSE Panic

\* Option<T>: None and Some(x)
None == <<"None">>
Some(x) == <<"Some", x>>

(***************************************************************************)
(* enum UiMode and enum Focus                                              *)
(***************************************************************************)
UiMode ==
    { "BodyHelp", "BodyHelpLog", "BodyLog", "ConfigMenu", "CreateTheme",
      "EditKeybindings", "HelpMenu", "LoadCloudSave", "LoadLocalSave", "Login",
      "LogsOnly", "MainMenu", "NewBoard", "NewCard", "ResetPassword", "SignUp",
      "TitleBody", "TitleBodyHelp", "TitleBodyHelpLog", "TitleBodyLog", "Zen" }

\* #[default] Zen
UiModeDefault == "Zen"

Focus ==
    { "Body", "CardComments", "CardDescription", "CardDueDate", "CardName",
      "CardPriority", "CardStatus", "CardTags", "ChangeCardPriorityPopup",
      "ChangeCardStatusPopup", "ChangeDateFormatPopup", "ChangeUiModePopup",
      "CloseButton", "CommandPaletteBoard", "CommandPaletteCard",
      "CommandPaletteCommand", "ConfigHelp", "ConfigTable",
      "ConfirmPasswordField", "EditGeneralConfigPopup", "EditKeybindingsTable",
      "EditSpecificKeyBindingPopup", "EmailIDField", "ExtraFocus",
      "FilterByTagPopup", "Help", "LoadSave", "Log", "MainMenu",
      "NewBoardDescription", "NewBoardName", "NoFocus", "PasswordField",
      "ResetPasswordLinkField", "SelectDefaultView",
      "SendResetPasswordLinkButton", "StyleEditorBG", "StyleEditorFG",
      "StyleEditorModifier", "SubmitButton", "TextInput", "ThemeEditor",
      "ThemeSelector", "Title" }

\* #[default] NoFocus
FocusDefault == "NoFocus"

\* UiMode::get_available_targets with HelpMenu listing Help twice.
get_available_targets_repeated_help(self) ==
    CASE self = "BodyHelp" -> <<"Body", "Help">>
      [] self = "BodyHelpLog" -> <<"Body", "Help", "Log">>
      [] self = "BodyLog" -> <<"Body", "Log">>
      [] self = "ConfigMenu" -> <<"ConfigTable", "SubmitButton", "ExtraFocus">>
      [] self = "CreateTheme" -> <<"ThemeEditor", "SubmitButton", "ExtraFocus">>
      [] self = "EditKeybindings" -> <<"EditKeybindingsTable", "SubmitButton">>
      [] self = "HelpMenu" -> <<"Help", "Log", "Help">>
      [] self = "LoadCloudSave" -> <<"Body">>
      [] self = "LoadLocalSave" -> <<"Body">>
      [] self = "Login" ->
            <<"Title", "EmailIDField", "PasswordField", "ExtraFocus",
              "SubmitButton">>
      [] self = "LogsOnly" -> <<"Log">>
      [] self = "MainMenu" -> <<"MainMenu", "Help", "Log">>
      [] self = "NewBoard" ->
            <<"NewBoardName", "NewBoardDescription", "SubmitButton">>
      [] self = "NewCard" ->
            <<"CardName", "CardDescription", "CardDueDate", "SubmitButton">>
      [] self = "ResetPassword" ->
            <<"Title", "EmailIDField", "SendResetPasswordLinkButton",
              "ResetPasswordLinkField", "PasswordField",
              "ConfirmPasswordField", "ExtraFocus", "SubmitButton">>
      [] self = "SignUp" ->
            <<"Title", "EmailIDField", "PasswordField", "ConfirmPasswordField",
              "ExtraFocus", "SubmitButton">>
      [] self = "TitleBody" -> <<"Title", "Body">>
      [] self = "TitleBodyHelp" -> <<"Title", "Body", "Help">>
      [] self = "TitleBodyHelpLog" -> <<"Title", "Body", "Help", "Log">>
      [] self = "TitleBodyLog" -> <<"Title", "Body", "Log">>
      [] self = "Zen" -> <<"Body">>

\* UiMode::get_available_targets
get_available_targets(self) ==
    CASE self = "BodyHelp" -> <<"Body", "Help">>
      [] self = "BodyHelpLog" -> <<"Body", "Help", "Log">>
      [] self = "BodyLog" -> <<"Body", "Log">>
      [] self = "ConfigMenu" -> <<"ConfigTable", "SubmitButton", "ExtraFocus">>
      [] self = "CreateTheme" -> <<"ThemeEditor", "SubmitButton", "ExtraFocus">>
      [] self = "EditKeybindings" -> <<"EditKeybindingsTable", "SubmitButton">>
      [] self = "HelpMenu" -> <<"Help", "Log">>
      [] self = "LoadCloudSave" -> <<"Body">>
      [] self = "LoadLocalSave" -> <<"Body">>
      [] self = "Login" ->
            <<"Title", "EmailIDField", "PasswordField", "ExtraFocus",
              "SubmitButton">>
      [] self = "LogsOnly" -> <<"Log">>
      [] self = "MainMenu" -> <<"MainMenu", "Help", "Log">>
      [] self = "NewBoard" ->
            <<"NewBoardName", "NewBoardDescription", "SubmitButton">>
      [] self = "NewCard" ->
            <<"CardName", "CardDescription", "CardDueDate", "SubmitButton">>
      [] self = "ResetPassword" ->
            <<"Title", "EmailIDField", "SendResetPasswordLinkButton",
              "ResetPasswordLinkField", "PasswordField",
              "ConfirmPasswordField", "ExtraFocus", "SubmitButton">>
      [] self = "SignUp" ->
            <<"Title", "EmailIDField", "PasswordField", "ConfirmPasswordField",
              "ExtraFocus", "SubmitButton">>
      [] self = "TitleBody" -> <<"Title", "Body">>
      [] self = "TitleBodyHelp" -> <<"Title", "Body", "Help">>
      [] self = "TitleBodyHelpLog" -> <<"Title", "Body", "Help", "Log">>
      [] self = "TitleBodyLog" -> <<"Title", "Body", "Log">>
      [] self = "Zen" -> <<"Body">>

\* The `match self` of UiMode::render: the ui_helper routine each mode draws with.
draw_routine(self) ==
    CASE self = "Zen" -> "render_zen_mode"
      [] self = "TitleBody" -> "render_title_body"
      [] self = "BodyHelp" -> "render_body_help"
      [] self = "BodyLog" -> "render_body_log"
      [] self = "TitleBodyHelp" -> "render_title_body_help"
      [] self = "TitleBodyLog" -> "render_title_body_log"
      [] self = "BodyHelpLog" -> "render_body_help_log"
      [] self = "TitleBodyHelpLog" -> "render_title_body_help_log"
      [] self = "ConfigMenu" -> "render_config"
      [] self = "EditKeybindings" -> "render_edit_keybindings"
      [] self = "MainMenu" -> "render_main_menu"
      [] self = "HelpMenu" -> "render_help_menu"
      [] self = "LogsOnly" -> "render_logs_only"
      [] self = "NewBoard" -> "render_new_board_form"
      [] self = "NewCard" -> "render_new_card_form"
      [] self = "LoadLocalSave" -> "render_load_a_save"
      [] self = "CreateTheme" -> "render_create_theme"
      [] self = "Login" -> "render_login"
      [] self = "SignUp" -> "render_signup"
      [] self = "ResetPassword" -> "render_reset_password"
      [] self = "LoadCloudSave" -> "render_load_cloud_save"

(***************************************************************************)
(* impl UiMode: string and numeric codes, view modes                       *)
(***************************************************************************)
\* UiMode::from_string that expects "Config Menu" for UiMode::ConfigMenu.
from_string_config_menu(s) ==
    CASE s = "Body and Help" -> Some("BodyHelp")
      [] s = "Body, Help and Log" -> Some("BodyHelpLog")
      [] s = "Body and Log" -> Some("BodyLog")
      [] s = "Config Menu" -> Some("ConfigMenu")
      [] s = "Create Theme" -> Some("CreateTheme")
      [] s = "Edit Keybindings" -> Some("EditKeybindings")
      [] s = "Help Menu" -> Some("HelpMenu")
      [] s = "Load a Save (Cloud)" -> Some("LoadCloudSave")
      [] s = "Load a Save (Local)" -> Some("LoadLocalSave")
      [] s = "Login" -> Some("Login")
      [] s = "Logs Only" -> Some("LogsOnly")
      [] s = "Main Menu" -> Some("MainMenu")
      [] s = "New Board" -> Some("NewBoard")
      [] s = "New Card" -> Some("NewCard")
      [] s = "Reset Password" -> Some("ResetPassword")
      [] s = "Sign Up" -> Some("SignUp")
      [] s = "Title and Body" -> Some("TitleBody")
      [] s = "Title, Body and Help" -> Some("TitleBodyHelp")
      [] s = "Title, Body, Help and Log" -> Some("TitleBodyHelpLog")
      [] s = "Title, Body and Log" -> Some("TitleBodyLog")
      [] s = "Zen" -> Some("Zen")
      [] OTHER -> None

\* UiMode::from_string that falls back to the default mode
\* (unwrap_or_default in the wildcard arm).
from_string_default_fallback(s) ==
    CASE s = "Body and Help" -> Some("BodyHelp")
      [] s = "Body, Help and Log" -> Some("BodyHelpLog")
      [] s = "Body and Log" -> Some("BodyLog")
      [] s = "Config" -> Some("ConfigMenu")
      [] s = "Create Theme" -> Some("CreateTheme")
      [] s = "Edit Keybindings" -> Some("EditKeybindings")
      [] s = "Help Menu" -> Some("HelpMenu")
      [] s = "Load a Save (Cloud)" -> Some("LoadCloudSave")
      [] s = "Load a Save (Local)" -> Some("LoadLocalSave")
      [] s = "Login" -> Some("Login")
      [] s = "Logs Only" -> Some("LogsOnly")
      [] s = "Main Menu" -> Some("MainMenu")
      [] s = "New Board" -> Some("NewBoard")
      [] s = "New Card" -> Some("NewCard")
      [] s = "Reset Password" -> Some("ResetPassword")
      [] s = "Sign Up" -> Some("SignUp")
      [] s = "Title and Body" -> Some("TitleBody")
      [] s = "Title, Body and Help" -> Some("TitleBodyHelp")
      [] s = "Title, Body, Help and Log" -> Some("TitleBodyHelpLog")
      [] s = "Title, Body and Log" -> Some("TitleBodyLog")
      [] s = "Zen" -> Some("Zen")
      [] OTHER -> Some("Zen")

\* UiMode::from_string
from_string(s) ==
    CASE s = "Body and Help" -> Some("BodyHelp")
      [] s = "Body, Help and Log" -> Some("BodyHelpLog")
      [] s = "Body and Log" -> Some("BodyLog")
      [] s = "Config" -> Some("ConfigMenu")
      [] s = "Create Theme" -> Some("CreateTheme")
      [] s = "Edit Keybindings" -> Some("EditKeybindings")
      [] s = "Help Menu" -> Some("HelpMenu")
      [] s = "Load a Save (Cloud)" -> Some("LoadCloudSave")
      [] s = "Load a Save (Local)" -> Some("LoadLocalSave")
      [] s = "Login" -> Some("Login")
      [] s = "Logs Only" -> Some("LogsOnly")
      [] s = "Main Menu" -> Some("MainMenu")
      [] s = "New Board" -> Some("NewBoard")
      [] s = "New Card" -> Some("NewCard")
      [] s = "Reset Password" -> Some("ResetPassword")
      [] s = "Sign Up" -> Some("SignUp")
      [] s = "Title and Body" -> Some("TitleBody")
      [] s = "Title, Body and Help" -> Some("TitleBodyHelp")
      [] s = "Title, Body, Help and Log" -> Some("TitleBodyHelpLog")
      [] s = "Title, Body and Log" -> Some("TitleBodyLog")
      [] s = "Zen" -> Some("Zen")
      [] OTHER -> None

\* impl fmt::Display for UiMode (to_string)
to_string(self) ==
    CASE self = "BodyHelp" -> "Body and Help"
      [] self = "BodyHelpLog" -> "Body, Help and Log"
      [] self = "BodyLog" -> "Body and Log"
      [] self = "ConfigMenu" -> "Config"
      [] self = "CreateTheme" -> "Create Theme"
      [] self = "EditKeybindings" -> "Edit Keybindings"
      [] self = "HelpMenu" -> "Help Menu"
      [] self = "LoadCloudSave" -> "Load a Save (Cloud)"
      [] self = "LoadLocalSave" -> "Load a Save (Local)"
      [] self = "Login" -> "Login"
      [] self = "LogsOnly" -> "Logs Only"
      [] self = "MainMenu" -> "Main Menu"
      [] self = "NewBoard" -> "New Board"
      [] self = "NewCard" -> "New Card"
      [] self = "ResetPassword" -> "Reset Password"
      [] self = "SignUp" -> "Sign Up"
      [] self = "TitleBody" -> "Title and Body"
      [] self = "TitleBodyHelp" -> "Title, Body and Help"
      [] self = "TitleBodyHelpLog" -> "Title, Body, Help and Log"
      [] self = "TitleBodyLog" -> "Title, Body and Log"
      [] self = "Zen" -> "Zen"

\* n: u8
U8 == 0..255

\* UiMode::from_number that falls back to the default mode.
from_number_fallback_zen(n) ==
    CASE n = 1 -> "Zen"
      [] n = 2 -> "TitleBody"
      [] n = 3 -> "BodyHelp"
      [] n = 4 -> "BodyLog"
      [] n = 5 -> "TitleBodyHelp"
      [] n = 6 -> "TitleBodyLog"
      [] n = 7 -> "BodyHelpLog"
      [] n = 8 -> "TitleBodyHelpLog"
      [] n = 9 -> "LogsOnly"
      [] OTHER -> "Zen"

\* UiMode::from_number with the arms of 2 and 3 exchanged.
from_number_two_three_exchanged(n) ==
    CASE n = 1 -> "Zen"
      [] n = 2 -> "BodyHelp"
      [] n = 3 -> "TitleBody"
      [] n = 4 -> "BodyLog"
      [] n = 5 -> "TitleBodyHelp"
      [] n = 6 -> "TitleBodyLog"
      [] n = 7 -> "BodyHelpLog"
      [] n = 8 -> "TitleBodyHelpLog"
      [] n = 9 -> "LogsOnly"
      [] OTHER -> "TitleBody"

\* UiMode::from_number; the fallback arm logs an error and returns TitleBody.
from_number(n) ==
    CASE n = 1 -> "Zen"
      [] n = 2 -> "TitleBody"
      [] n = 3 -> "BodyHelp"
      [] n = 4 -> "BodyLog"
      [] n = 5 -> "TitleBodyHelp"
      [] n = 6 -> "TitleBodyLog"
      [] n = 7 -> "BodyHelpLog"
      [] n = 8 -> "TitleBodyHelpLog"
      [] n = 9 -> "LogsOnly"
      [] OTHER -> "TitleBody"

\* UiMode::view_modes
view_modes ==
    << "Zen", "TitleBody", "BodyHelp", "BodyLog", "TitleBodyHelp",
       "TitleBodyLog", "BodyHelpLog", "TitleBodyHelpLog" >>

\* UiMode::view_modes_as_string
view_modes_as_string == [i \in 1..Len(view_modes) |-> to_string(view_modes[i])]

(***************************************************************************)
(* impl Focus                                                              *)
(***************************************************************************)
\* Focus::next that stops at the last tab instead of wrapping.
next_no_wrap(self, available_tabs) ==
    IF contains(available_tabs, self)
    THEN LET index == position(available_tabs, self) IN
         IF index = Len(available_tabs) - 1
         THEN index_at(available_tabs, index)
         ELSE index_at(available_tabs, index + 1)
    ELSE index_at(available_tabs, 0)

\* Focus::next that compares the index with len() instead of len() - 1.
next_off_by_one(self, available_tabs) ==
    IF contains(available_tabs, self)
    THEN LET index == position(available_tabs, self) IN
         IF index = Len(available_tabs)
         THEN index_at(available_tabs, 0)
         ELSE index_at(available_tabs, index + 1)
    ELSE index_at(available_tabs, 0)

\* Focus::next that wraps from the last tab to the second one
\* (available_tabs[1] for available_tabs[0]).
next_wrap_to_second(self, available_tabs) ==
    IF contains(available_tabs, self)
    THEN LET index == position(available_tabs, self) IN
         IF index = Len(available_tabs) - 1
         THEN index_at(available_tabs, 1)
         ELSE index_at(available_tabs, index + 1)
    ELSE index_at(available_tabs, 0)

\* Focus::next
next(self, available_tabs) ==
    IF contains(available_tabs, self)
    THEN LET index == position(available_tabs, self) IN
         IF index = Len(available_tabs) - 1
         THEN index_at(available_tabs, 0)
         ELSE index_at(available_tabs, index + 1)
    ELSE index_at(available_tabs, 0)

\* Focus::prev that stops at the first tab instead of wrapping.
prev_no_wrap(self, available_tabs) ==
    IF contains(available_tabs, self)
    THEN LET index == position(available_tabs, self) IN
         IF index = 0
         THEN index_at(available_tabs, 0)
         ELSE index_at(available_tabs, index - 1)
    ELSE index_at(available_tabs, 0)

\* Focus::prev that sends a stale focus to the last tab, mirroring its wrap.
prev_stale_last(self, available_tabs) ==
    IF contains(available_tabs, self)
    THEN LET index == position(available_tabs, self) IN
         IF index = 0
         THEN index_at(available_tabs, Len(available_tabs) - 1)
         ELSE index_at(available_tabs, index - 1)
    ELSE index_at(available_tabs, Len(available_tabs) - 1)

\* Focus::prev
prev(self, available_tabs) ==
    IF contains(available_tabs, self)
    THEN LET index == position(available_tabs, self) IN
         IF index = 0
         THEN index_at(available_tabs, Len(available_tabs) - 1)
         ELSE index_at(available_tabs, index - 1)
    ELSE index_at(available_tabs, 0)

(***************************************************************************)
(* Navigation state machine                                                *)
(***************************************************************************)
\* What a navigation operation leaves in `call`.
Call(op, self, ret, drawn) ==
    [op |-> op, self |-> self, ret |-> ret, drawn |-> drawn]

\* State after construction: AppState::default() takes the #[default] variants.
InitNav ==
    /\ ui_mode = UiModeDefault
    /\ focus = FocusDefault
    /\ popup_mode = "None"
    /\ call = Call("init", FocusDefault, "()", <<>>)

\* UiMode::render with the popup test inverted (is_some for is_none).
render_inverted_popup_check(self) ==
    /\ focus' =
          IF popup_mode # "None"
          THEN LET current_focus == focus IN
               IF ~contains(get_available_targets(self), current_focus)
                  /\ get_available_targets(self) # <<>>
               THEN index_at(get_available_targets(self), 0)
               ELSE focus
          ELSE focus
    /\ call' = Call("render", focus, "()",
                    <<[routine |-> draw_routine(self), mode |-> self,
                       focus |-> focus', popup_mode |-> popup_mode]>>)
    /\ UNCHANGED <<ui_mode, popup_mode, kb, kcall, edits, edited>>

\* UiMode::render that only draws, without the focus repair.
render_no_repair(self) ==
    /\ focus' = focus
    /\ call' = Call("render", focus, "()",
                    <<[routine |-> draw_routine(self), mode |-> self,
                       focus |-> focus', popup_mode |-> popup_mode]>>)
    /\ UNCHANGED <<ui_mode, popup_mode, kb, kcall, edits, edited>>

\* UiMode::render that calls the draw routine before the focus repair.
render_draw_before_repair(self) ==
    /\ focus' = IF popup_mode = "None"
          THEN LET current_focus == focus IN
               IF ~contains(get_available_targets(self), current_focus)
                  /\ get_available_targets(self) # <<>>
               THEN index_at(get_available_targets(self), 0)
               ELSE focus
          ELSE focus
    /\ call' = Call("render", focus, "()",
                    <<[routine |-> draw_routine(self), mode |-> self,
                       focus |-> focus, popup_mode |-> popup_mode]>>)
    /\ UNCHANGED <<ui_mode, popup_mode, kb, kcall, edits, edited>>

\* UiMode::render that resets the focus to the first target on every call
\* without a popup.
render_always_reset(self) ==
    /\ focus' = IF popup_mode = "None"
          THEN IF get_available_targets(self) # <<>>
               THEN index_at(get_available_targets(self), 0)
               ELSE focus
          ELSE focus
    /\ call' = Call("render", focus, "()",
                    <<[routine |-> draw_routine(self), mode |-> self,
                       focus |-> focus', popup_mode |-> popup_mode]>>)
    /\ UNCHANGED <<ui_mode, popup_mode, kb, kcall, edits, edited>>

\* UiMode::render whose repair takes the last target
\* (available_focus_targets.last() for available_focus_targets[0]).
render_reset_to_last(self) ==
    /\ focus' = IF popup_mode = "None"
          THEN LET current_focus == focus IN
               IF ~contains(get_available_targets(self), current_focus)
                  /\ get_available_targets(self) # <<>>
               THEN index_at(get_available_targets(self),
                             Len(get_available_targets(self)) - 1)
               ELSE focus
          ELSE focus
    /\ call' = Call("render", focus, "()",
                    <<[routine |-> draw_routine(self), mode |-> self,
                       focus |-> focus', popup_mode |-> popup_mode]>>)
    /\ UNCHANGED <<ui_mode, popup_mode, kb, kcall, edits, edited>>

\* UiMode::render(self, rect, app): the focus repair, then the mode's draw
\* routine, which sees the repaired focus.
render(self) ==
    /\ focus' =
          IF popup_mode = "None"
          THEN LET current_focus == focus IN
               IF ~contains(get_available_targets(self), current_focus)
                  /\ get_available_targets(self) # <<>>
               THEN index_at(get_available_targets(self), 0)
               ELSE focus
          ELSE focus
    /\ call' = Call("render", focus, "()",
                    <<[routine |-> draw_routine(self), mode |-> self,
                       focus |-> focus', popup_mode |-> popup_mode]>>)
    /\ UNCHANGED <<ui_mode, popup_mode, kb, kcall, edits, edited>>

\* The draw loop renders the current mode: app.state.ui_mode.render(rect, app)
Render == render(ui_mode)

\* The dispatcher moves focus forward over the current mode's targets.
NextFocus ==
    LET ret == next(focus, get_available_targets(ui_mode)) IN
    /\ focus' = IF ret = Panic THEN focus ELSE ret
    /\ call' = Call("next", focus, ret, <<>>)
    /\ UNCHANGED <<ui_mode, popup_mode, kb, kcall, edits, edited>>

\* The dispatcher moves focus backward over the current mode's targets.
PrvFocus ==
    LET ret == prev(focus, get_available_targets(ui_mode)) IN
    /\ focus' = IF ret = Panic THEN focus ELSE ret
    /\ call' = Call("prev", focus, ret, <<>>)
    /\ UNCHANGED <<ui_mode, popup_mode, kb, kcall, edits, edited>>

\* The dispatcher switches to another screen (no render yet).
ChangeUiMode(m) ==
    /\ ui_mode' = m
    /\ call' = Call("set_ui_mode", focus, "()", <<>>)
    /\ UNCHANGED <<focus, popup_mode, kb, kcall, edits, edited>>

\* app.state.set_focus(f), as the dispatcher and the popups call it.
SetFocus(f) ==
    /\ focus' = f
    /\ call' = Call("set_focus", f, "()", <<>>)
    /\ UNCHANGED <<ui_mode, popup_mode, kb, kcall, edits, edited>>

\* A popup opens: popup_mode becomes Some(_).
OpenPopup ==
    /\ popup_mode = "None"
    /\ popup_mode' = "Some"
    /\ call' = Call("open_popup", focus, "()", <<>>)
    /\ UNCHANGED <<ui_mode, focus, kb, kcall, edits, edited>>

\* The popup closes: popup_mode becomes None.
ClosePopup ==
    /\ popup_mode = "Some"
    /\ popup_mode' = "None"
    /\ call' = Call("close_popup", focus, "()", <<>>)
    /\ UNCHANGED <<ui_mode, focus, kb, kcall, edits, edited>>

NextNav ==
    \/ Render
    \/ NextFocus
    \/ PrvFocus
    \/ \E m \in UiMode : ChangeUiMode(m)
    \/ \E f \in Focus : SetFocus(f)
    \/ OpenPopup
    \/ ClosePopup

(***************************************************************************)
(* enum KeyBindingEnum, struct KeyBindings                                 *)
(***************************************************************************)
\* KeyBindingEnum in declaration order, the order KeyBindingEnum::iter() yields.
KeyBindingEnum ==
    << "Accept", "ChangeCardStatusToActive", "ChangeCardStatusToCompleted",
       "ChangeCardStatusToStale", "ChangeCardPriorityToHigh",
       "ChangeCardPriorityToMedium", "ChangeCardPriorityToLow",
       "ClearAllToasts", "DeleteBoard", "DeleteCard", "Down", "GoToMainMenu",
       "GoToPreviousUIModeorCancel", "HideUiElement", "Left", "MoveCardDown",
       "MoveCardLeft", "MoveCardRight", "MoveCardUp", "NewBoard", "NewCard",
       "NextFocus", "OpenConfigMenu", "PrvFocus", "Quit", "Redo", "ResetUI",
       "Right", "SaveState", "StopUserInput", "TakeUserInput",
       "ToggleCommandPalette", "Undo", "Up" >>

\* struct KeyBindings: its fields, in declaration order (the order of the
\* binding names they belong to).
KeyBindingsStruct ==
    << "accept", "change_card_status_to_active",
       "change_card_status_to_completed", "change_card_status_to_stale",
       "change_card_priority_to_high", "change_card_priority_to_medium",
       "change_card_priority_to_low", "clear_all_toasts", "delete_board",
       "delete_card", "down", "go_to_main_menu",
       "go_to_previous_ui_mode_or_cancel", "hide_ui_element", "left",
       "move_card_down", "move_card_left", "move_card_right", "move_card_up",
       "new_board", "new_card", "next_focus", "open_config_menu", "prv_focus",
       "quit", "redo", "reset_ui", "right", "save_state", "stop_user_input",
       "take_user_input", "toggle_command_palette", "undo", "up" >>

KeyBindingsFields ==
    {KeyBindingsStruct[i] : i \in 1..Len(KeyBindingsStruct)}

\* impl Default for KeyBindings
KeyBindingsDefault ==
    [f \in KeyBindingsFields |->
        CASE f = "accept" -> <<"Enter">>
          [] f = "change_card_status_to_completed" -> <<"Char('1')">>
          [] f = "change_card_status_to_active" -> <<"Char('2')">>
          [] f = "change_card_status_to_stale" -> <<"Char('3')">>
          [] f = "change_card_priority_to_high" -> <<"Char('4')">>
          [] f = "change_card_priority_to_medium" -> <<"Char('5')">>
          [] f = "change_card_priority_to_low" -> <<"Char('6')">>
          [] f = "clear_all_toasts" -> <<"Char('t')">>
          [] f = "delete_board" -> <<"Char('D')">>
          [] f = "delete_card" -> <<"Char('d')", "Delete">>
          [] f = "down" -> <<"Down">>
          [] f = "go_to_main_menu" -> <<"Char('m')">>
          [] f = "go_to_previous_ui_mode_or_cancel" -> <<"Esc">>
          [] f = "hide_ui_element" -> <<"Char('h')">>
          [] f = "left" -> <<"Left">>
          [] f = "move_card_down" -> <<"ShiftDown">>
          [] f = "move_card_left" -> <<"ShiftLeft">>
          [] f = "move_card_right" -> <<"ShiftRight">>
          [] f = "move_card_up" -> <<"ShiftUp">>
          [] f = "new_board" -> <<"Char('b')">>
          [] f = "new_card" -> <<"Char('n')">>
          [] f = "next_focus" -> <<"Tab">>
          [] f = "open_config_menu" -> <<"Char('c')">>
          [] f = "prv_focus" -> <<"BackTab">>
          [] f = "quit" -> <<"Ctrl('c')", "Char('q')">>
          [] f = "redo" -> <<"Ctrl('y')">>
          [] f = "reset_ui" -> <<"Char('r')">>
          [] f = "right" -> <<"Right">>
          [] f = "save_state" -> <<"Ctrl('s')">>
          [] f = "stop_user_input" -> <<"Ins">>
          [] f = "take_user_input" -> <<"Char('i')">>
          [] f = "toggle_command_palette" -> <<"Ctrl('p')">>
          [] f = "undo" -> <<"Ctrl('z')">>
          [] f = "up" -> <<"Up">>]

\* KeyBindings::iter that pairs Undo with the list of Up.
iter_undo_gets_up(self) ==
    [i \in 1..Len(KeyBindingEnum) |->
        LET enum_variant == KeyBindingEnum[i]
            value ==
              CASE enum_variant = "Accept" -> self["accept"]
                [] enum_variant = "ChangeCardStatusToActive" ->
                      self["change_card_status_to_active"]
                [] enum_variant = "ChangeCardStatusToCompleted" ->
                      self["change_card_status_to_completed"]
                [] enum_variant = "ChangeCardStatusToStale" ->
                      self["change_card_status_to_stale"]
                [] enum_variant = "ChangeCardPriorityToHigh" ->
                      self["change_card_priority_to_high"]
                [] enum_variant = "ChangeCardPriorityToMedium" ->
                      self["change_card_priority_to_medium"]
                [] enum_variant = "ChangeCardPriorityToLow" ->
                      self["change_card_priority_to_low"]
                [] enum_variant = "ClearAllToasts" -> self["clear_all_toasts"]
                [] enum_variant = "DeleteBoard" -> self["delete_board"]
                [] enum_variant = "DeleteCard" -> self["delete_card"]
                [] enum_variant = "Down" -> self["down"]
                [] enum_variant = "GoToMainMenu" -> self["go_to_main_menu"]
                [] enum_variant = "GoToPreviousUIModeorCancel" ->
                      self["go_to_previous_ui_mode_or_cancel"]
                [] enum_variant = "HideUiElement" -> self["hide_ui_element"]
                [] enum_variant = "Left" -> self["left"]
                [] enum_variant = "MoveCardDown" -> self["move_card_down"]
                [] enum_variant = "MoveCardLeft" -> self["move_card_left"]
                [] enum_variant = "MoveCardRight" -> self["move_card_right"]
                [] enum_variant = "MoveCardUp" -> self["move_card_up"]
                [] enum_variant = "NewBoard" -> self["new_board"]
                [] enum_variant = "NewCard" -> self["new_card"]
                [] enum_variant = "NextFocus" -> self["next_focus"]
                [] enum_variant = "OpenConfigMenu" -> self["open_config_menu"]
                [] enum_variant = "PrvFocus" -> self["prv_focus"]
                [] enum_variant = "Quit" -> self["quit"]
                [] enum_variant = "Redo" -> self["redo"]
                [] enum_variant = "ResetUI" -> self["reset_ui"]
                [] enum_variant = "Right" -> self["right"]
                [] enum_variant = "SaveState" -> self["save_state"]
                [] enum_variant = "StopUserInput" -> self["stop_user_input"]
                [] enum_variant = "TakeUserInput" -> self["take_user_input"]
                [] enum_variant = "ToggleCommandPalette" ->
                      self["toggle_command_palette"]
                [] enum_variant = "Undo" -> self["up"]
                [] enum_variant = "Up" -> self["up"]
        IN <<enum_variant, value>>]

\* KeyBindings::iter: (binding name, &key list) pairs in KeyBindingEnum order.
iter(self) ==
    [i \in 1..Len(KeyBindingEnum) |->
        LET enum_variant == KeyBindingEnum[i]
            value ==
              CASE enum_variant = "Accept" -> self["accept"]
                [] enum_variant = "ChangeCardStatusToActive" ->
                      self["change_card_status_to_active"]
                [] enum_variant = "ChangeCardStatusToCompleted" ->
                      self["change_card_status_to_completed"]
                [] enum_variant = "ChangeCardStatusToStale" ->
                      self["change_card_status_to_stale"]
                [] enum_variant = "ChangeCardPriorityToHigh" ->
                      self["change_card_priority_to_high"]
                [] enum_variant = "ChangeCardPriorityToMedium" ->
                      self["change_card_priority_to_medium"]
                [] enum_variant = "ChangeCardPriorityToLow" ->
                      self["change_card_priority_to_low"]
                [] enum_variant = "ClearAllToasts" -> self["clear_all_toasts"]
                [] enum_variant = "DeleteBoard" -> self["delete_board"]
                [] enum_variant = "DeleteCard" -> self["delete_card"]
                [] enum_variant = "Down" -> self["down"]
                [] enum_variant = "GoToMainMenu" -> self["go_to_main_menu"]
                [] enum_variant = "GoToPreviousUIModeorCancel" ->
                      self["go_to_previous_ui_mode_or_cancel"]
                [] enum_variant = "HideUiElement" -> self["hide_ui_element"]
                [] enum_variant = "Left" -> self["left"]
                [] enum_variant = "MoveCardDown" -> self["move_card_down"]
                [] enum_variant = "MoveCardLeft" -> self["move_card_left"]
                [] enum_variant = "MoveCardRight" -> self["move_card_right"]
                [] enum_variant = "MoveCardUp" -> self["move_card_up"]
                [] enum_variant = "NewBoard" -> self["new_board"]
                [] enum_variant = "NewCard" -> self["new_card"]
                [] enum_variant = "NextFocus" -> self["next_focus"]
                [] enum_variant = "OpenConfigMenu" -> self["open_config_menu"]
                [] enum_variant = "PrvFocus" -> self["prv_focus"]
                [] enum_variant = "Quit" -> self["quit"]
                [] enum_variant = "Redo" -> self["redo"]
                [] enum_variant = "ResetUI" -> self["reset_ui"]
                [] enum_variant = "Right" -> self["right"]
                [] enum_variant = "SaveState" -> self["save_state"]
                [] enum_variant = "StopUserInput" -> self["stop_user_input"]
                [] enum_variant = "TakeUserInput" -> self["take_user_input"]
                [] enum_variant = "ToggleCommandPalette" ->
                      self["toggle_command_palette"]
                [] enum_variant = "Undo" -> self["undo"]
                [] enum_variant = "Up" -> self["up"]
        IN <<enum_variant, value>>]

\* keybinding_enum_to_action with DeleteBoard given DeleteCard's action.
keybinding_enum_to_action_shared(self, keybinding_enum) ==
    CASE keybinding_enum = "Accept" -> "Action::Accept"
      [] keybinding_enum = "ChangeCardStatusToActive" ->
            "Action::ChangeCardStatusToActive"
      [] keybinding_enum = "ChangeCardStatusToCompleted" ->
            "Action::ChangeCardStatusToCompleted"
      [] keybinding_enum = "ChangeCardStatusToStale" ->
            "Action::ChangeCardStatusToStale"
      [] keybinding_enum = "ChangeCardPriorityToHigh" ->
            "Action::ChangeCardPriorityToHigh"
      [] keybinding_enum = "ChangeCardPriorityToMedium" ->
            "Action::ChangeCardPriorityToMedium"
      [] keybinding_enum = "ChangeCardPriorityToLow" ->
            "Action::ChangeCardPriorityToLow"
      [] keybinding_enum = "ClearAllToasts" -> "Action::ClearAllToasts"
      [] keybinding_enum = "DeleteBoard" -> "Action::Delete"
      [] keybinding_enum = "DeleteCard" -> "Action::Delete"
      [] keybinding_enum = "Down" -> "Action::Down"
      [] keybinding_enum = "GoToMainMenu" -> "Action::GoToMainMenu"
      [] keybinding_enum = "GoToPreviousUIModeorCancel" ->
            "Action::GoToPreviousUIModeorCancel"
      [] keybinding_enum = "HideUiElement" -> "Action::HideUiElement"
      [] keybinding_enum = "Left" -> "Action::Left"
      [] keybinding_enum = "MoveCardDown" -> "Action::MoveCardDown"
      [] keybinding_enum = "MoveCardLeft" -> "Action::MoveCardLeft"
      [] keybinding_enum = "MoveCardRight" -> "Action::MoveCardRight"
      [] keybinding_enum = "MoveCardUp" -> "Action::MoveCardUp"
      [] keybinding_enum = "NewBoard" -> "Action::NewBoard"
      [] keybinding_enum = "NewCard" -> "Action::NewCard"
      [] keybinding_enum = "NextFocus" -> "Action::NextFocus"
      [] keybinding_enum = "OpenConfigMenu" -> "Action::OpenConfigMenu"
      [] keybinding_enum = "PrvFocus" -> "Action::PrvFocus"
      [] keybinding_enum = "Quit" -> "Action::Quit"
      [] keybinding_enum = "Redo" -> "Action::Redo"
      [] keybinding_enum = "ResetUI" -> "Action::ResetUI"
      [] keybinding_enum = "Right" -> "Action::Right"
      [] keybinding_enum = "SaveState" -> "Action::SaveState"
      [] keybinding_enum = "StopUserInput" -> "Action::StopUserInput"
      [] keybinding_enum = "TakeUserInput" -> "Action::TakeUserInput"
      [] keybinding_enum = "ToggleCommandPalette" ->
            "Action::ToggleCommandPalette"
      [] keybinding_enum = "Undo" -> "Action::Undo"
      [] keybinding_enum = "Up" -> "Action::Up"

\* KeyBindings::keybinding_enum_to_action
keybinding_enum_to_action(self, keybinding_enum) ==
    CASE keybinding_enum = "Accept" -> "Action::Accept"
      [] keybinding_enum = "ChangeCardStatusToActive" ->
            "Action::ChangeCardStatusToActive"
      [] keybinding_enum = "ChangeCardStatusToCompleted" ->
            "Action::ChangeCardStatusToCompleted"
      [] keybinding_enum = "ChangeCardStatusToStale" ->
            "Action::ChangeCardStatusToStale"
      [] keybinding_enum = "ChangeCardPriorityToHigh" ->
            "Action::ChangeCardPriorityToHigh"
      [] keybinding_enum = "ChangeCardPriorityToMedium" ->
            "Action::ChangeCardPriorityToMedium"
      [] keybinding_enum = "ChangeCardPriorityToLow" ->
            "Action::ChangeCardPriorityToLow"
      [] keybinding_enum = "ClearAllToasts" -> "Action::ClearAllToasts"
      [] keybinding_enum = "DeleteBoard" -> "Action::DeleteBoard"
      [] keybinding_enum = "DeleteCard" -> "Action::Delete"
      [] keybinding_enum = "Down" -> "Action::Down"
      [] keybinding_enum = "GoToMainMenu" -> "Action::GoToMainMenu"
      [] keybinding_enum = "GoToPreviousUIModeorCancel" ->
            "Action::GoToPreviousUIModeorCancel"
      [] keybinding_enum = "HideUiElement" -> "Action::HideUiElement"
      [] keybinding_enum = "Left" -> "Action::Left"
      [] keybinding_enum = "MoveCardDown" -> "Action::MoveCardDown"
      [] keybinding_enum = "MoveCardLeft" -> "Action::MoveCardLeft"
      [] keybinding_enum = "MoveCardRight" -> "Action::MoveCardRight"
      [] keybinding_enum = "MoveCardUp" -> "Action::MoveCardUp"
      [] keybinding_enum = "NewBoard" -> "Action::NewBoard"
      [] keybinding_enum = "NewCard" -> "Action::NewCard"
      [] keybinding_enum = "NextFocus" -> "Action::NextFocus"
      [] keybinding_enum = "OpenConfigMenu" -> "Action::OpenConfigMenu"
      [] keybinding_enum = "PrvFocus" -> "Action::PrvFocus"
      [] keybinding_enum = "Quit" -> "Action::Quit"
      [] keybinding_enum = "Redo" -> "Action::Redo"
      [] keybinding_enum = "ResetUI" -> "Action::ResetUI"
      [] keybinding_enum = "Right" -> "Action::Right"
      [] keybinding_enum = "SaveState" -> "Action::SaveState"
      [] keybinding_enum = "StopUserInput" -> "Action::StopUserInput"
      [] keybinding_enum = "TakeUserInput" -> "Action::TakeUserInput"
      [] keybinding_enum = "ToggleCommandPalette" ->
            "Action::ToggleCommandPalette"
      [] keybinding_enum = "Undo" -> "Action::Undo"
      [] keybinding_enum = "Up" -> "Action::Up"

\* KeyBindings::key_to_action that takes the last binding holding the key
\* (rfind for find).
key_to_action_last_match(self, key) ==
    LET it == iter(self)
        found == {i \in 1..Len(it) : contains(it[i][2], key)}
    IN
    IF found = {}
    THEN None
    ELSE LET last == CHOOSE i \in found : \A j \in found : i >= j IN
         Some(keybinding_enum_to_action(self, it[last][1]))

\* KeyBindings::key_to_action that compares only the first key of each list
\* (keybinding.first() == Some(key) for keybinding.contains(key)).
key_to_action_first_key_only(self, key) ==
    LET it == iter(self)
        found == {i \in 1..Len(it) : Len(it[i][2]) > 0 /\ it[i][2][1] = key}
    IN
    IF found = {}
    THEN None
    ELSE LET first == CHOOSE i \in found : \A j \in found : i <= j IN
         Some(keybinding_enum_to_action(self, it[first][1]))

\* KeyBindings::key_to_action: .iter().find(|(_, keybinding)|
\* keybinding.contains(key)), then the found name's action.
key_to_action(self, key) ==
    LET it == iter(self)
        found == {i \in 1..Len(it) : contains(it[i][2], key)}
    IN
    IF found = {}
    THEN None
    ELSE LET first == CHOOSE i \in found : \A j \in found : i <= j IN
         Some(keybinding_enum_to_action(self, it[first][1]))

\* Vec::dedup(): removes consecutive repeated elements, keeping the first of
\* each run.
RECURSIVE dedup(_)
dedup(v) ==
    IF Len(v) <= 1
    THEN v
    ELSE LET head == dedup(SubSeq(v, 1, Len(v) - 1)) IN
         IF v[Len(v)] = v[Len(v) - 1] THEN head ELSE Append(head, v[Len(v)])

\* KeyBindingEnum::from_str (derive(EnumString)): Ok(variant) for a string that
\* is exactly a variant's name, Err otherwise.
from_str(s) ==
    IF \E i \in 1..Len(KeyBindingEnum) : KeyBindingEnum[i] = s
    THEN <<"Ok", s>>
    ELSE <<"Err", "VariantNotFound">>

\* The field that belongs to a binding name: same place in the struct as the
\* name has in the enum.
FieldOf(keybinding_enum) ==
    KeyBindingsStruct[CHOOSE i \in 1..Len(KeyBindingEnum) :
                         KeyBindingEnum[i] = keybinding_enum]

\* edit_keybinding that falls back to the first binding for an unknown
\* identifier (unwrap_or_default for the `if let Ok`).
edit_keybinding_unknown_as_accept(self, key, keybinding) ==
    LET kbd == dedup(keybinding)
        keybinding_enum == from_str(key)
    IN
    IF keybinding_enum[1] = "Ok"
    THEN [self EXCEPT ![FieldOf(keybinding_enum[2])] = kbd]
    ELSE [self EXCEPT !["accept"] = kbd]

\* edit_keybinding with one arm writing its neighbour's field
\* (MoveCardLeft => self.move_card_right = keybinding).
edit_keybinding_wrong_field(self, key, keybinding) ==
    LET kbd == dedup(keybinding)
        keybinding_enum == from_str(key)
    IN
    IF keybinding_enum[1] = "Ok"
    THEN IF keybinding_enum[2] = "MoveCardLeft"
         THEN [self EXCEPT !["move_card_right"] = kbd]
         ELSE [self EXCEPT ![FieldOf(keybinding_enum[2])] = kbd]
    ELSE self

\* edit_keybinding with one arm writing a second field as well
\* (Down => self.down = keybinding.clone(); self.up = keybinding).
edit_keybinding_down_also_up(self, key, keybinding) ==
    LET kbd == dedup(keybinding)
        keybinding_enum == from_str(key)
    IN
    IF keybinding_enum[1] = "Ok"
    THEN IF keybinding_enum[2] = "Down"
         THEN [self EXCEPT !["down"] = kbd, !["up"] = kbd]
         ELSE [self EXCEPT ![FieldOf(keybinding_enum[2])] = kbd]
    ELSE self

\* KeyBindings::edit_keybinding: the table after the call.
edit_keybinding(self, key, keybinding) ==
    LET kbd == dedup(keybinding)
        keybinding_enum == from_str(key)
        e == keybinding_enum[2]
    IN
    IF keybinding_enum[1] = "Ok"
    THEN CASE e = "Accept" -> [self EXCEPT !["accept"] = kbd]
           [] e = "ChangeCardStatusToActive" ->
                 [self EXCEPT !["change_card_status_to_active"] = kbd]
           [] e = "ChangeCardStatusToCompleted" ->
                 [self EXCEPT !["change_card_status_to_completed"] = kbd]
           [] e = "ChangeCardStatusToStale" ->
                 [self EXCEPT !["change_card_status_to_stale"] = kbd]
           [] e = "ChangeCardPriorityToHigh" ->
                 [self EXCEPT !["change_card_priority_to_high"] = kbd]
           [] e = "ChangeCardPriorityToMedium" ->
                 [self EXCEPT !["change_card_priority_to_medium"] = kbd]
           [] e = "ChangeCardPriorityToLow" ->
                 [self EXCEPT !["change_card_priority_to_low"] = kbd]
           [] e = "ClearAllToasts" -> [self EXCEPT !["clear_all_toasts"] = kbd]
           [] e = "DeleteBoard" -> [self EXCEPT !["delete_board"] = kbd]
           [] e = "DeleteCard" -> [self EXCEPT !["delete_card"] = kbd]
           [] e = "Down" -> [self EXCEPT !["down"] = kbd]
           [] e = "GoToMainMenu" -> [self EXCEPT !["go_to_main_menu"] = kbd]
           [] e = "GoToPreviousUIModeorCancel" ->
                 [self EXCEPT !["go_to_previous_ui_mode_or_cancel"] = kbd]
           [] e = "HideUiElement" -> [self EXCEPT !["hide_ui_element"] = kbd]
           [] e = "Left" -> [self EXCEPT !["left"] = kbd]
           [] e = "MoveCardDown" -> [self EXCEPT !["move_card_down"] = kbd]
           [] e = "MoveCardLeft" -> [self EXCEPT !["move_card_left"] = kbd]
           [] e = "MoveCardRight" -> [self EXCEPT !["move_card_right"] = kbd]
           [] e = "MoveCardUp" -> [self EXCEPT !["move_card_up"] = kbd]
           [] e = "NewBoard" -> [self EXCEPT !["new_board"] = kbd]
           [] e = "NewCard" -> [self EXCEPT !["new_card"] = kbd]
           [] e = "NextFocus" -> [self EXCEPT !["next_focus"] = kbd]
           [] e = "OpenConfigMenu" -> [self EXCEPT !["open_config_menu"] = kbd]
           [] e = "PrvFocus" -> [self EXCEPT !["prv_focus"] = kbd]
           [] e = "Quit" -> [self EXCEPT !["quit"] = kbd]
           [] e = "Redo" -> [self EXCEPT !["redo"] = kbd]
           [] e = "ResetUI" -> [self EXCEPT !["reset_ui"] = kbd]
           [] e = "Right" -> [self EXCEPT !["right"] = kbd]
           [] e = "SaveState" -> [self EXCEPT !["save_state"] = kbd]
           [] e = "StopUserInput" -> [self EXCEPT !["stop_user_input"] = kbd]
           [] e = "TakeUserInput" -> [self EXCEPT !["take_user_input"] = kbd]
           [] e = "ToggleCommandPalette" ->
                 [self EXCEPT !["toggle_command_palette"] = kbd]
           [] e = "Undo" -> [self EXCEPT !["undo"] = kbd]
           [] e = "Up" -> [self EXCEPT !["up"] = kbd]
    ELSE self

\* KeyBindings::get_keybindings that reads the redo field for Quit.
get_keybindings_quit_reads_redo(self, keybinding_enum) ==
    CASE keybinding_enum = "Accept" -> Some(self["accept"])
      [] keybinding_enum = "ChangeCardStatusToActive" ->
            Some(self["change_card_status_to_active"])
      [] keybinding_enum = "ChangeCardStatusToCompleted" ->
            Some(self["change_card_status_to_completed"])
      [] keybinding_enum = "ChangeCardStatusToStale" ->
            Some(self["change_card_status_to_stale"])
      [] keybinding_enum = "ChangeCardPriorityToHigh" ->
            Some(self["change_card_priority_to_high"])
      [] keybinding_enum = "ChangeCardPriorityToMedium" ->
            Some(self["change_card_priority_to_medium"])
      [] keybinding_enum = "ChangeCardPriorityToLow" ->
            Some(self["change_card_priority_to_low"])
      [] keybinding_enum = "ClearAllToasts" -> Some(self["clear_all_toasts"])
      [] keybinding_enum = "DeleteBoard" -> Some(self["delete_board"])
      [] keybinding_enum = "DeleteCard" -> Some(self["delete_card"])
      [] keybinding_enum = "Down" -> Some(self["down"])
      [] keybinding_enum = "GoToMainMenu" -> Some(self["go_to_main_menu"])
      [] keybinding_enum = "GoToPreviousUIModeorCancel" ->
            Some(self["go_to_previous_ui_mode_or_cancel"])
      [] keybinding_enum = "HideUiElement" -> Some(self["hide_ui_element"])
      [] keybinding_enum = "Left" -> Some(self["left"])
      [] keybinding_enum = "MoveCardDown" -> Some(self["move_card_down"])
      [] keybinding_enum = "MoveCardLeft" -> Some(self["move_card_left"])
      [] keybinding_enum = "MoveCardRight" -> Some(self["move_card_right"])
      [] keybinding_enum = "MoveCardUp" -> Some(self["move_card_up"])
      [] keybinding_enum = "NewBoard" -> Some(self["new_board"])
      [] keybinding_enum = "NewCard" -> Some(self["new_card"])
      [] keybinding_enum = "NextFocus" -> Some(self["next_focus"])
      [] keybinding_enum = "OpenConfigMenu" -> Some(self["open_config_menu"])
      [] keybinding_enum = "PrvFocus" -> Some(self["prv_focus"])
      [] keybinding_enum = "Quit" -> Some(self["redo"])
      [] keybinding_enum = "Redo" -> Some(self["redo"])
      [] keybinding_enum = "ResetUI" -> Some(self["reset_ui"])
      [] keybinding_enum = "Right" -> Some(self["right"])
      [] keybinding_enum = "SaveState" -> Some(self["save_state"])
      [] keybinding_enum = "StopUserInput" -> Some(self["stop_user_input"])
      [] keybinding_enum = "TakeUserInput" -> Some(self["take_user_input"])
      [] keybinding_enum = "ToggleCommandPalette" ->
            Some(self["toggle_command_palette"])
      [] keybinding_enum = "Undo" -> Some(self["undo"])
      [] keybinding_enum = "Up" -> Some(self["up"])

\* KeyBindings::get_keybindings
get_keybindings(self, keybinding_enum) ==
    CASE keybinding_enum = "Accept" -> Some(self["accept"])
      [] keybinding_enum = "ChangeCardStatusToActive" ->
            Some(self["change_card_status_to_active"])
      [] keybinding_enum = "ChangeCardStatusToCompleted" ->
            Some(self["change_card_status_to_completed"])
      [] keybinding_enum = "ChangeCardStatusToStale" ->
            Some(self["change_card_status_to_stale"])
      [] keybinding_enum = "ChangeCardPriorityToHigh" ->
            Some(self["change_card_priority_to_high"])
      [] keybinding_enum = "ChangeCardPriorityToMedium" ->
            Some(self["change_card_priority_to_medium"])
      [] keybinding_enum = "ChangeCardPriorityToLow" ->
            Some(self["change_card_priority_to_low"])
      [] keybinding_enum = "ClearAllToasts" -> Some(self["clear_all_toasts"])
      [] keybinding_enum = "DeleteBoard" -> Some(self["delete_board"])
      [] keybinding_enum = "DeleteCard" -> Some(self["delete_card"])
      [] keybinding_enum = "Down" -> Some(self["down"])
      [] keybinding_enum = "GoToMainMenu" -> Some(self["go_to_main_menu"])
      [] keybinding_enum = "GoToPreviousUIModeorCancel" ->
            Some(self["go_to_previous_ui_mode_or_cancel"])
      [] keybinding_enum = "HideUiElement" -> Some(self["hide_ui_element"])
      [] keybinding_enum = "Left" -> Some(self["left"])
      [] keybinding_enum = "MoveCardDown" -> Some(self["move_card_down"])
      [] keybinding_enum = "MoveCardLeft" -> Some(self["move_card_left"])
      [] keybinding_enum = "MoveCardRight" -> Some(self["move_card_right"])
      [] keybinding_enum = "MoveCardUp" -> Some(self["move_card_up"])
      [] keybinding_enum = "NewBoard" -> Some(self["new_board"])
      [] keybinding_enum = "NewCard" -> Some(self["new_card"])
      [] keybinding_enum = "NextFocus" -> Some(self["next_focus"])
      [] keybinding_enum = "OpenConfigMenu" -> Some(self["open_config_menu"])
      [] keybinding_enum = "PrvFocus" -> Some(self["prv_focus"])
      [] keybinding_enum = "Quit" -> Some(self["quit"])
      [] keybinding_enum = "Redo" -> Some(self["redo"])
      [] keybinding_enum = "ResetUI" -> Some(self["reset_ui"])
      [] keybinding_enum = "Right" -> Some(self["right"])
      [] keybinding_enum = "SaveState" -> Some(self["save_state"])
      [] keybinding_enum = "StopUserInput" -> Some(self["stop_user_input"])
      [] keybinding_enum = "TakeUserInput" -> Some(self["take_user_input"])
      [] keybinding_enum = "ToggleCommandPalette" ->
            Some(self["toggle_command_palette"])
      [] keybinding_enum = "Undo" -> Some(self["undo"])
      [] keybinding_enum = "Up" -> Some(self["up"])

(***************************************************************************)
(* Key-binding state machine                                               *)
(***************************************************************************)
\* Bounds of the explored inputs.
MaxEdits == 2
MaxLen == 3

\* The keys of the default table, and a key it binds to nothing.
Keys ==
    UNION {{KeyBindingsDefault[f][i] : i \in 1..Len(KeyBindingsDefault[f])} :
           f \in KeyBindingsFields} \cup {"Char('z')"}

\* The keys that edits bind: one the default table binds (to Quit) and one it
\* does not bind.
EditKeys == {"Char('q')", "Char('z')"}

\* The key lists passed to edit_keybinding: every list of at most MaxLen keys.
KeyLists == UNION {[1..n -> EditKeys] : n \in 0..MaxLen}

\* The identifiers passed to edit_keybinding: every binding name, and strings
\* that name no binding (from_str is case-sensitive).
Identifiers ==
    {KeyBindingEnum[i] : i \in 1..Len(KeyBindingEnum)} \cup {"quit", "Bogus"}

\* The identifiers of the edits made in sequence: the bindings declared first
\* and last, two between them whose default lists hold two keys, and a string
\* that names no binding.
SequenceIdentifiers == {"Accept", "DeleteCard", "Quit", "Up", "quit"}

\* The key lists of the edits made in sequence: empty, one key, two keys, and
\* lists with an adjacent and with a distant repetition.
SequenceKeyLists ==
    { <<>>, <<"Char('q')">>, <<"Char('z')">>, <<"Char('z')", "Char('q')">>,
      <<"Char('z')", "Char('z')", "Char('q')">>,
      <<"Char('q')", "Char('z')", "Char('q')">> }

\* The keys the input loop is seen to resolve.
PressedKeys == EditKeys \cup {"Ctrl('c')"}

\* What a KeyBindings operation leaves in `kcall`.
KCall(op, key, keybinding, before, k, ret) ==
    [op |-> op, key |-> key, keybinding |-> keybinding, before |-> before,
     k |-> k, ret |-> ret]

\* No binding has been edited.
NoEdits == [n \in {KeyBindingEnum[j] : j \in 1..Len(KeyBindingEnum)} |-> <<>>]

\* KeyBindings::default()
InitKeys ==
    /\ kb = KeyBindingsDefault
    /\ kcall = KCall("default", "", <<>>, KeyBindingsDefault, "", "()")
    /\ edits = 0
    /\ edited = NoEdits

\* app.config.keybindings.edit_keybinding(key, keybinding)
EditKeybinding(key, keybinding) ==
    /\ edits < MaxEdits
    /\ kb' = edit_keybinding(kb, key, keybinding)
    /\ kcall' = KCall("edit_keybinding", key, keybinding, kb, "", "&mut Self")
    /\ edits' = edits + 1
    /\ edited' = IF from_str(key)[1] = "Ok"
                 THEN [edited EXCEPT ![key] = <<keybinding>>]
                 ELSE edited
    /\ UNCHANGED navVars

\* The input loop resolves a key: app.config.keybindings.key_to_action(&key)
KeyToAction(k) ==
    /\ kcall' = KCall("key_to_action", "", <<>>, kb, k, key_to_action(kb, k))
    /\ UNCHANGED <<kb, edits, edited>>
    /\ UNCHANGED navVars

NextKeys ==
    \/ \E key \in SequenceIdentifiers, keybinding \in SequenceKeyLists :
          EditKeybinding(key, keybinding)
    \/ \E k \in PressedKeys : KeyToAction(k)

\* The tables one call of edit_keybinding is applied to, each with the edits
\* that built it: the default table and tables that earlier edits left.
EditedHistories ==
    { [kb |-> KeyBindingsDefault, edited |-> NoEdits],
      [kb |-> edit_keybinding(KeyBindingsDefault, "Accept", <<"Char('q')">>),
       edited |-> [NoEdits EXCEPT !["Accept"] = <<(<<"Char('q')">>)>>]],
      [kb |-> edit_keybinding(
                  edit_keybinding(KeyBindingsDefault, "Up", <<>>),
                  "Quit", <<"Char('z')", "Char('q')">>),
       edited |-> [NoEdits EXCEPT !["Up"] = <<(<<>>)>>,
                                  !["Quit"] = <<(<<"Char('z')", "Char('q')">>)>>]] }

EditedTables == {h.kb : h \in EditedHistories}

InitEdit ==
    /\ \E h \in EditedHistories : kb = h.kb /\ edited = h.edited
    /\ kcall = KCall("default", "", <<>>, kb, "", "()")
    /\ edits = 0

\* One call edit_keybinding(key, keybinding) on the table drawn by InitEdit.
EditOnce(key, keybinding) ==
    /\ kcall.op = "default"
    /\ kb' = edit_keybinding(kb, key, keybinding)
    /\ kcall' = KCall("edit_keybinding", key, keybinding, kb, "", "&mut Self")
    /\ edits' = edits + 1
    /\ edited' = IF from_str(key)[1] = "Ok"
                 THEN [edited EXCEPT ![key] = <<keybinding>>]
                 ELSE edited
    /\ UNCHANGED navVars

\* One call key_to_action(&k) on the table drawn by InitEdit.
ResolveOnce(k) ==
    /\ kcall.op = "default"
    /\ kcall' = KCall("key_to_action", "", <<>>, kb, k, key_to_action(kb, k))
    /\ UNCHANGED <<kb, edits, edited>>
    /\ UNCHANGED navVars

NextEditOnce ==
    \/ \E key \in Identifiers, keybinding \in KeyLists :
          EditOnce(key, keybinding)
    \/ \E k \in Keys : ResolveOnce(k)

(***************************************************************************)
(* Calls of the UiMode conversions, recorded in `call`                     *)
(***************************************************************************)
\* The strings handed to UiMode::from_string: every display label, and
\* strings that differ from a label in case, spacing or by being a variant
\* name.
InputStrings ==
    {to_string(m) : m \in UiMode}
        \cup {"", "zen", "ZEN", "Zen ", "MainMenu", "main menu", "Config Menu"}

\* mode.to_string()
ToString(m) ==
    /\ call' = Call("to_string", m, to_string(m), <<>>)
    /\ UNCHANGED <<ui_mode, focus, popup_mode, kb, kcall, edits, edited>>

\* UiMode::from_string(s)
FromString(s) ==
    /\ call' = Call("from_string", s, from_string(s), <<>>)
    /\ UNCHANGED <<ui_mode, focus, popup_mode, kb, kcall, edits, edited>>

\* UiMode::from_number(n)
FromNumber(n) ==
    /\ call' = Call("from_number", n, from_number(n), <<>>)
    /\ UNCHANGED <<ui_mode, focus, popup_mode, kb, kcall, edits, edited>>

\* UiMode::view_modes()
ViewModes ==
    /\ call' = Call("view_modes", "()", view_modes, <<>>)
    /\ UNCHANGED <<ui_mode, focus, popup_mode, kb, kcall, edits, edited>>

\* mode.get_available_targets()
GetAvailableTargets(m) ==
    /\ call' = Call("get_available_targets", m, get_available_targets(m), <<>>)
    /\ UNCHANGED <<ui_mode, focus, popup_mode, kb, kcall, edits, edited>>

NextModes ==
    \/ \E m \in UiMode : ToString(m)
    \/ \E s \in InputStrings : FromString(s)
    \/ \E n \in U8 : FromNumber(n)
    \/ ViewModes
    \/ \E m \in UiMode : GetAvailableTargets(m)

(***************************************************************************)
(* Specifications                                                          *)
(***************************************************************************)
Init == InitNav /\ InitKeys

\* Navigation: the key-binding table stays as constructed.
Next == NextNav

Spec == Init /\ [][Next]_vars

\* Sequences of edits and key resolutions: the navigation state stays as
\* constructed.
SpecKeys == Init /\ [][NextKeys]_vars

\* One edit_keybinding or key_to_action call on a table drawn from
\* EditedTables.
InitOneEdit == InitNav /\ InitEdit

SpecEdit == InitOneEdit /\ [][NextEditOnce]_vars

\* Calls of the UiMode conversions in any order.
SpecModes == Init /\ [][NextModes]_vars

(***************************************************************************)
(* Properties                                                              *)
(***************************************************************************)
\* The targets of a mode, as a set.
TargetSet(m) ==
    {get_available_targets(m)[i] : i \in 1..Len(get_available_targets(m))}

\* The keys of a list, as a set.
KeySet(v) == {v[i] : i \in 1..Len(v)}

\* The binding names.
BindingNames == {KeyBindingEnum[i] : i \in 1..Len(KeyBindingEnum)}

\* C1: when render runs for a mode with no popup active and the focus it finds
\* is not one of the mode's targets, the focus afterwards is the mode's first
\* target.
C1_RenderRepairsFocus ==
    (call.op = "render" /\ popup_mode = "None"
        /\ call.self \notin TargetSet(ui_mode))
    => focus = get_available_targets(ui_mode)[1]

\* ConfigMenu rendered with focus CardName and no popup: focus is ConfigTable.
C1_Witness ==
    /\ call.op = "render"
    /\ ui_mode = "ConfigMenu"
    /\ popup_mode = "None"
    /\ call.self = "CardName"
    /\ focus = "ConfigTable"

\* C2, as claimed: in every reachable state with no popup, the focus is one of
\* the current mode's targets.
C2_FocusAlwaysValid ==
    popup_mode = "None" => focus \in TargetSet(ui_mode)

\* C2, amended: with no popup, the focus is one of the current mode's targets
\* right after render of the current mode and right after a Focus::next or
\* Focus::prev move over the current mode's targets.
C2_FocusValidAfterRenderOrMove ==
    (popup_mode = "None" /\ call.op \in {"render", "next", "prev"})
    => focus \in TargetSet(ui_mode)

\* Login rendered after the mode changed under focus Body: focus is Title.
C2_Witness ==
    /\ call.op = "render"
    /\ ui_mode = "Login"
    /\ popup_mode = "None"
    /\ call.self = "Body"
    /\ focus = "Title"
    /\ focus \in TargetSet(ui_mode)

\* C7: for a focus at place i of the mode's target list L, next returns
\* L[i+1], or L's first element from the last place, and prev returns L[i-1],
\* or L's last element from the first place.
C7_NextPrevStepCyclically ==
    LET L == get_available_targets(ui_mode) IN
    \A i \in 1..Len(L) :
        L[i] = call.self =>
            /\ call.op = "next" =>
                  call.ret = IF i = Len(L) THEN L[1] ELSE L[i + 1]
            /\ call.op = "prev" =>
                  call.ret = IF i = 1 THEN L[Len(L)] ELSE L[i - 1]

\* prev from Login's first target wraps to its last.
C7_Witness ==
    /\ call.op = "prev"
    /\ ui_mode = "Login"
    /\ call.self = "Title"
    /\ call.ret = "SubmitButton"
    /\ focus = "SubmitButton"

\* C8: for a focus in the mode's target list L, prev undoes next and next
\* undoes prev: f.next(L).prev(L) = f and f.prev(L).next(L) = f.
C8_NextPrevInverse ==
    LET L == get_available_targets(ui_mode) IN
    call.self \in TargetSet(ui_mode) =>
        /\ call.op = "next" => prev(call.ret, L) = call.self
        /\ call.op = "prev" => next(call.ret, L) = call.self

\* next from the last target of TitleBodyHelpLog wraps, and prev goes back.
C8_Witness ==
    /\ call.op = "next"
    /\ ui_mode = "TitleBodyHelpLog"
    /\ call.self = "Log"
    /\ call.ret = "Title"
    /\ prev(call.ret, get_available_targets(ui_mode)) = "Log"

\* C9: for a focus that is not in the (non-empty) target list L, next and
\* prev both return L's first element.
C9_StaleFocusGoesToFirst ==
    LET L == get_available_targets(ui_mode) IN
    (call.op \in {"next", "prev"} /\ L # <<>>
        /\ call.self \notin TargetSet(ui_mode))
    => call.ret = L[1]

\* prev from NoFocus in Login returns Title, not SubmitButton.
C9_Witness ==
    /\ call.op = "prev"
    /\ ui_mode = "Login"
    /\ call.self = "NoFocus"
    /\ call.ret = "Title"

\* C10: for every focus and every mode's target list, next and prev return a
\* member of the list, without an out-of-range index access.
C10_NextPrevTotal ==
    call.op \in {"next", "prev"} =>
        /\ call.ret # Panic
        /\ call.ret \in TargetSet(ui_mode)
        /\ focus = call.ret

\* next on a one-element list, from the element itself.
C10_Witness ==
    /\ call.op = "next"
    /\ ui_mode = "LogsOnly"
    /\ Len(get_available_targets(ui_mode)) = 1
    /\ call.self = "Log"
    /\ call.ret = "Log"

\* The binding names, by place in the declaration, whose stored list holds k.
Holders(table, k) ==
    {i \in 1..Len(KeyBindingEnum) :
        k \in KeySet(get_keybindings(table, KeyBindingEnum[i])[2])}

\* What resolution by declaration order gives for k.
FirstHolderAction(table, k) ==
    LET holders == Holders(table, k) IN
    IF holders = {}
    THEN None
    ELSE Some(keybinding_enum_to_action(table,
             KeyBindingEnum[CHOOSE i \in holders : \A j \in holders : i <= j]))

\* C3: in every table reached by edits from the default one, and for every
\* key, key_to_action gives the action of the first binding name in
\* declaration order whose list holds the key, and None when no list does.
C3_ResolvesByDeclarationOrder ==
    /\ \A k \in Keys : key_to_action(kb, k) = FirstHolderAction(kb, k)
    /\ kcall.op = "key_to_action" =>
          kcall.ret = FirstHolderAction(kcall.before, kcall.k)

\* z was bound to Up first and to Accept by a later edit: Accept, declared
\* earlier, wins.
C3_Witness ==
    /\ kcall.op = "edit_keybinding"
    /\ kcall.key = "Accept"
    /\ "Char('z')" \in KeySet(kcall.before["up"])
    /\ "Char('z')" \notin KeySet(kcall.before["accept"])
    /\ "Char('z')" \in KeySet(kb["accept"])
    /\ "Char('z')" \in KeySet(kb["up"])
    /\ key_to_action(kb, "Char('z')") = Some("Action::Accept")

\* The keys of a list, each once, in the order of their first occurrences.
RECURSIVE FirstOccurrences(_)
FirstOccurrences(v) ==
    IF v = <<>>
    THEN <<>>
    ELSE LET head == FirstOccurrences(SubSeq(v, 1, Len(v) - 1)) IN
         IF v[Len(v)] \in KeySet(head) THEN head ELSE Append(head, v[Len(v)])

\* C4: after edit_keybinding(N, L) for a binding name N, the list stored for
\* N holds each key of L exactly once, in the order of first occurrences.
C4_StoresFirstOccurrences ==
    (kcall.op = "edit_keybinding" /\ kcall.key \in BindingNames)
    => get_keybindings(kb, kcall.key) = Some(FirstOccurrences(kcall.keybinding))

\* C5: edit_keybinding with an identifier that names no binding leaves every
\* stored list as it was and returns normally.
C5_UnknownIdentifierIsNoOp ==
    (kcall.op = "edit_keybinding" /\ kcall.key \notin BindingNames)
    => /\ \A n \in BindingNames :
             get_keybindings(kb, n) = get_keybindings(kcall.before, n)
       /\ kb = kcall.before
       /\ kcall.ret = "&mut Self"

\* edit_keybinding("quit", [z]) was called and the table is as before.
C5_Witness ==
    /\ kcall.op = "edit_keybinding"
    /\ kcall.key = "quit"
    /\ kcall.keybinding = <<"Char('z')">>
    /\ kb = kcall.before

\* C6: after edit_keybinding(N, L) for a binding name N, the list of every
\* other binding name is as before, and N's list holds the keys of L.
C6_EditChangesOnlyNamedBinding ==
    (kcall.op = "edit_keybinding" /\ kcall.key \in BindingNames)
    => /\ \A n \in BindingNames \ {kcall.key} :
             get_keybindings(kb, n) = get_keybindings(kcall.before, n)
       /\ KeySet(get_keybindings(kb, kcall.key)[2]) = KeySet(kcall.keybinding)

\* edit_keybinding("MoveCardLeft", [z, q]) replaced that list and no other.
C6_Witness ==
    /\ kcall.op = "edit_keybinding"
    /\ kcall.key = "MoveCardLeft"
    /\ kcall.keybinding = <<"Char('z')", "Char('q')">>
    /\ kb["move_card_left"] = <<"Char('z')", "Char('q')">>
    /\ kb["move_card_right"] = kcall.before["move_card_right"]
    /\ kb # kcall.before

\* C11: for every UiMode variant m, from_string(m.to_string()) is Some(m); the
\* 21 display labels are pairwise distinct; and for every label s that
\* to_string produces, from_string(s) is a mode whose label is s again.
C11_StringRoundTrip ==
    /\ call.op = "to_string" =>
          /\ from_string(call.ret) = Some(call.self)
          /\ \A m \in UiMode : to_string(m) = call.ret => m = call.self
    /\ (call.op = "from_string" /\ \E m \in UiMode : to_string(m) = call.self) =>
          /\ call.ret # None
          /\ to_string(call.ret[2]) = call.self

\* A label was formatted, and a formatted label was parsed.
C11_Witness ==
    \/ call.op = "to_string" /\ call.self = "ConfigMenu" /\ call.ret = "Config"
    \/ call.op = "from_string" /\ call.self = "Load a Save (Cloud)"
           /\ call.ret = Some("LoadCloudSave")

\* C12: for every n in 1..9, from_number(n) is a member of view_modes().
C12_NumbersGiveViewModes ==
    (call.op = "from_number" /\ call.self \in 1..9) =>
        contains(view_modes, call.ret)

\* C13: for every u8 value n outside 1..9, from_number(n) is TitleBody, and
\* from_number returns a UiMode for every input.
C13_OutOfRangeFallsBack ==
    call.op = "from_number" =>
        /\ call.ret \in UiMode
        /\ call.self \notin 1..9 => call.ret = "TitleBody"

\* from_number was called with 0 or with a value above 9.
C13_Witness ==
    /\ call.op = "from_number"
    /\ call.self \in {0, 10, 255}
    /\ call.ret = "TitleBody"

\* C14: for every UiMode variant, get_available_targets returns a non-empty
\* sequence of Focus values in which no value occurs twice.
C14_TargetsNonEmptyNoRepeats ==
    call.op = "get_available_targets" =>
        /\ Len(call.ret) > 0
        /\ \A i \in 1..Len(call.ret) : call.ret[i] \in Focus
        /\ \A i, j \in 1..Len(call.ret) : call.ret[i] = call.ret[j] => i = j

\* The longest target list was returned.
C14_Witness ==
    /\ call.op = "get_available_targets"
    /\ call.self = "ResetPassword"
    /\ Len(call.ret) = 8

\* C15: in the default table every binding name has at least one key, and
\* key_to_action(k) for a key k of binding name N's default list returns N's
\* action; Ctrl+c and q resolve to Quit, and the unbound key z to None.
C15_DefaultKeysResolveToOwnAction ==
    (kcall.op = "key_to_action" /\ kcall.before = KeyBindingsDefault) =>
        /\ \A n \in BindingNames : Len(get_keybindings(kcall.before, n)[2]) >= 1
        /\ \A n \in BindingNames :
              contains(get_keybindings(kcall.before, n)[2], kcall.k) =>
                  kcall.ret = Some(keybinding_enum_to_action(kcall.before, n))
        /\ kcall.k \in {"Ctrl('c')", "Char('q')"} => kcall.ret = Some("Action::Quit")
        /\ kcall.k = "Char('z')" => kcall.ret = None

\* On the default table the second key of Quit's list was resolved, or the
\* unbound key z was.
C15_Witness ==
    /\ kcall.op = "key_to_action"
    /\ kcall.before = KeyBindingsDefault
    /\ \/ kcall.k = "Char('q')" /\ kcall.ret = Some("Action::Quit")
       \/ kcall.k = "Char('z')" /\ kcall.ret = None

\* C16: keybinding_enum_to_action gives every binding name one action, gives
\* two different binding names different actions (the 34 names have 34
\* actions), and gives on the current table what it gives on the default
\* table.
C16_NameToActionOneToOne ==
    /\ \A n \in BindingNames :
          keybinding_enum_to_action(kb, n)
              = keybinding_enum_to_action(KeyBindingsDefault, n)
    /\ Cardinality({keybinding_enum_to_action(kb, n) : n \in BindingNames})
          = Cardinality(BindingNames)
    /\ kcall.op = "key_to_action" =>
          \/ kcall.ret = None
          \/ \E n \in BindingNames :
                kcall.ret = Some(keybinding_enum_to_action(KeyBindingsDefault, n))

\* After an edit that changed the table, a key resolved through
\* keybinding_enum_to_action to the action of the edited binding.
C16_Witness ==
    /\ kcall.op = "key_to_action"
    /\ edits > 0
    /\ kb # KeyBindingsDefault
    /\ kb["delete_card"] = <<"Char('z')">>
    /\ kcall.k = "Char('z')"
    /\ kcall.ret = Some("Action::Delete")

\* C17: a call of render invokes exactly one draw routine, the one of the mode
\* rendered, after the focus repair: with no popup active the focus the draw
\* routine observes is a member of the mode's get_available_targets().
C17_DrawsOnceAfterRepair ==
    call.op = "render" =>
        /\ Len(call.drawn) = 1
        /\ call.drawn[1].mode = ui_mode
        /\ call.drawn[1].routine = draw_routine(ui_mode)
        /\ call.drawn[1].focus = focus
        /\ call.drawn[1].popup_mode = "None" =>
              call.drawn[1].focus \in TargetSet(call.drawn[1].mode)

\* render of the Login mode started from a focus outside Login's targets and
\* render_login observed the repaired focus.
C17_Witness ==
    /\ call.op = "render"
    /\ ui_mode = "Login"
    /\ popup_mode = "None"
    /\ call.self = "Body"
    /\ call.drawn = <<[routine |-> "render_login", mode |-> "Login",
                       focus |-> "Title", popup_mode |-> "None"]>>

\* C18: render leaves the focus as it was when a popup is active or when the
\* focus is already in the rendered mode's target list.
C18_RepairOnlyWhenNeeded ==
    (call.op = "render"
        /\ (popup_mode = "Some" \/ call.self \in TargetSet(ui_mode)))
    => focus = call.self

\* render kept a focus that is in the mode's list but not first, or kept a
\* focus outside the list because a popup is active.
C18_Witness ==
    /\ call.op = "render"
    /\ \/ /\ popup_mode = "None"
          /\ ui_mode = "TitleBodyHelp"
          /\ call.self = "Help"
          /\ focus = "Help"
       \/ /\ popup_mode = "Some"
          /\ ui_mode = "Zen"
          /\ call.self = "Title"
          /\ focus = "Title"

\* A list without its consecutive repetitions: the first element of every run
\* of equal elements.
RECURSIVE RunHeads(_)
RunHeads(v) ==
    IF v = <<>>
    THEN <<>>
    ELSE LET rest == RunHeads(Tail(v)) IN
         IF rest # <<>> /\ Head(rest) = Head(v) THEN rest ELSE <<Head(v)>> \o rest

\* C19: after any sequence of edit_keybinding calls from the default table,
\* get_keybindings(N) is Some list for every binding name N: the list of the
\* latest successful edit naming N, without its consecutive repetitions, or
\* N's default list if no successful edit named N.
C19_GetReturnsLatestEdit ==
    \A n \in BindingNames :
        LET got == get_keybindings(kb, n) IN
        /\ got # None
        /\ got[1] = "Some"
        /\ got[2] = IF edited[n] = <<>>
                    THEN KeyBindingsDefault[FieldOf(n)]
                    ELSE RunHeads(edited[n][1])

\* Quit was edited twice; get_keybindings(Quit) is the second list, and the
\* unedited Up still has its default list.
C19_Witness ==
    /\ edits = 2
    /\ kcall.op = "edit_keybinding"
    /\ kcall.key = "Quit"
    /\ kcall.before["quit"] = <<"Char('z')">>
    /\ kcall.keybinding = <<"Char('z')", "Char('z')", "Char('q')">>
    /\ get_keybindings(kb, "Quit") = Some(<<"Char('z')", "Char('q')">>)
    /\ get_keybindings(kb, "Up") = Some(KeyBindingsDefault["up"])

\* C20: iter yields the 34 binding names once each, in KeyBindingEnum
\* declaration order; the list it pairs with a name N is the list
\* get_keybindings(N) returns, and after edit_keybinding with N's identifier
\* it is the list that call wrote, the other pairs being as before.
C20_IterAgreesWithGetAndEdit ==
    LET it == iter(kb) IN
    /\ Len(it) = Len(KeyBindingEnum)
    /\ Cardinality({it[i][1] : i \in 1..Len(it)}) = Len(it)
    /\ \A i \in 1..Len(it) :
          /\ it[i][1] = KeyBindingEnum[i]
          /\ get_keybindings(kb, it[i][1]) = Some(it[i][2])
    /\ (kcall.op = "edit_keybinding" /\ kcall.key \in BindingNames) =>
          \A i \in 1..Len(it) :
              it[i][2] = IF it[i][1] = kcall.key
                         THEN RunHeads(kcall.keybinding)
                         ELSE iter(kcall.before)[i][2]

\* edit_keybinding("Undo", [z, q]) was called on a table in which Up's list is
\* empty; iter pairs Undo, in its declared place, with [z, q].
C20_Witness ==
    /\ kcall.op = "edit_keybinding"
    /\ kcall.key = "Undo"
    /\ kcall.keybinding = <<"Char('z')", "Char('q')">>
    /\ kcall.before["up"] = <<>>
    /\ iter(kb)[Len(KeyBindingEnum) - 1] = <<"Undo", <<"Char('z')", "Char('q')">> >>
    /\ get_keybindings(kb, "Undo") = Some(<<"Char('z')", "Char('q')">>)

\* C21: from_string returns Some exactly for the 21 display labels and None
\* for every other string, a label in another letter case ("main menu") and
\* a variant identifier ("MainMenu") included.
C21_FromStringExact ==
    call.op = "from_string" =>
        /\ call.ret # None <=> \E m \in UiMode : to_string(m) = call.self
        /\ call.self \in {"main menu", "MainMenu"} => call.ret = None
        /\ Cardinality({s \in InputStrings : from_string(s) # None}) = Cardinality(UiMode)

\* from_string was called with a string that is no label.
C21_Witness ==
    /\ call.op = "from_string"
    /\ call.self \in {"main menu", "MainMenu", "ZEN", ""}
    /\ call.ret = None

\* C25: for every n from 1 to 8, from_number(n) is the n-th element (1-based)
\* of view_modes(), and view_modes() has exactly 8 elements, none repeated.
C25_NumbersFollowViewModeOrder ==
    /\ (call.op = "from_number" /\ call.self \in 1..8) =>
          call.ret = view_modes[call.self]
    /\ call.op = "view_modes" =>
          /\ Len(call.ret) = 8
          /\ Cardinality({call.ret[i] : i \in 1..Len(call.ret)}) = 8
          /\ \A n \in 1..8 : from_number(n) = call.ret[n]

\* from_number(8) gave the last view mode, or view_modes() was called.
C25_Witness ==
    \/ call.op = "from_number" /\ call.self = 8 /\ call.ret = "TitleBodyHelpLog"
    \/ call.op = "view_modes" /\ call.ret[3] = "BodyHelp"

\* The focus reached from f by k calls of Focus::next over available_tabs.
RECURSIVE next_times(_, _, _)
next_times(f, available_tabs, k) ==
    IF k = 0 THEN f ELSE next(next_times(f, available_tabs, k - 1), available_tabs)

\* The focus reached from f by k calls of Focus::prev over available_tabs.
RECURSIVE prev_times(_, _, _)
prev_times(f, available_tabs, k) ==
    IF k = 0 THEN f ELSE prev(prev_times(f, available_tabs, k - 1), available_tabs)

\* C22: for every mode with target list L of length n and every focus f in L,
\* n calls of Focus::next over L lead back to f and visit every element of L
\* exactly once on the way; likewise n calls of Focus::prev.
C22_TraversalIsFullCycle ==
    (call.op \in {"next", "prev"} /\ call.self \in TargetSet(ui_mode)) =>
        LET L == get_available_targets(ui_mode)
            n == Len(L)
            visited == IF call.op = "next"
                       THEN [k \in 1..n |-> next_times(call.self, L, k)]
                       ELSE [k \in 1..n |-> prev_times(call.self, L, k)]
        IN
        /\ visited[1] = call.ret
        /\ visited[n] = call.self
        /\ {visited[k] : k \in 1..n} = TargetSet(ui_mode)
        /\ Cardinality({visited[k] : k \in 1..n}) = n
        /\ \A g \in TargetSet(ui_mode) :
              /\ \E k \in 0..(n - 1) : next_times(call.self, L, k) = g
              /\ \E k \in 0..(n - 1) : prev_times(call.self, L, k) = g

\* Focus::next moved from the fifth of ResetPassword's eight targets to the
\* sixth.
C22_Witness ==
    /\ call.op = "next"
    /\ ui_mode = "ResetPassword"
    /\ call.self = "PasswordField"
    /\ call.ret = "ConfirmPasswordField"
    /\ focus = "ConfirmPasswordField"

\* C23: NoFocus is in no mode's target list; a render of a mode m that starts
\* from focus NoFocus with no popup sets the focus to the first element of
\* m.get_available_targets() (Body for Zen); and the initial state (Zen,
\* NoFocus, no popup) has a focus that is not valid for its mode.
C23_NoFocusIsNeverValid ==
    /\ \A m \in UiMode : ~contains(get_available_targets(m), FocusDefault)
    /\ (call.op = "render" /\ call.self = FocusDefault /\ popup_mode = "None") =>
          /\ focus = get_available_targets(ui_mode)[1]
          /\ ui_mode = UiModeDefault => focus = "Body"
    /\ call.op = "init" =>
          /\ ui_mode = UiModeDefault
          /\ ui_mode = "Zen"
          /\ focus = "NoFocus"
          /\ popup_mode = "None"
          /\ focus \notin TargetSet(ui_mode)

\* The first render of the SignUp mode, entered with focus NoFocus, set the
\* focus to Title.
C23_Witness ==
    /\ call.op = "render"
    /\ call.self = "NoFocus"
    /\ popup_mode = "None"
    /\ ui_mode = "SignUp"
    /\ focus = "Title"

\* The table after edit_keybinding(n1, l1) follows the edit recorded in kcall.
EditedThisOrder(n1, l1) == edit_keybinding(kb, n1, l1)

\* The table after the same two edits made in the opposite order on the table
\* the edit recorded in kcall started from.
EditedOtherOrder(n1, l1) ==
    edit_keybinding(edit_keybinding(kcall.before, n1, l1),
                    kcall.key, kcall.keybinding)

\* C24: for the table T on which edit_keybinding(N2, L2) with a binding name
\* N2 has just been called, every other binding name N1 and every key list
\* L1, editing N1 with L1 next gives the table that the two edits give on T in
\* the opposite order, and so the same key_to_action result for every key.
C24_EditsOfDifferentBindingsCommute ==
    (kcall.op = "edit_keybinding" /\ kcall.key \in BindingNames) =>
        /\ \A n1 \in BindingNames \ {kcall.key}, l1 \in SequenceKeyLists :
              EditedThisOrder(n1, l1) = EditedOtherOrder(n1, l1)
        /\ \A n1 \in (SequenceIdentifiers \cap BindingNames) \ {kcall.key},
               l1 \in SequenceKeyLists, k \in PressedKeys :
              key_to_action(EditedThisOrder(n1, l1), k)
                  = key_to_action(EditedOtherOrder(n1, l1), k)

\* Up was edited to hold z on a table that already carried edits; editing
\* Accept to hold z next, or first, gives the same table, in which z
\* resolves to Accept.
C24_Witness ==
    /\ kcall.op = "edit_keybinding"
    /\ kcall.key = "Up"
    /\ kcall.keybinding = <<"Char('z')">>
    /\ kcall.before # KeyBindingsDefault
    /\ kb["up"] = <<"Char('z')">>
    /\ edit_keybinding(kb, "Accept", <<"Char('z')">>)
          = edit_keybinding(
                edit_keybinding(kcall.before, "Accept", <<"Char('z')">>),
                "Up", <<"Char('z')">>)
    /\ key_to_action(edit_keybinding(kb, "Accept", <<"Char('z')">>), "Char('z')")
          = Some("Action::Accept")

====
